---- MODULE Spec2Model ----
(***************************************************************************)
(* A model of discord-clipper: the per-speaker clip queue (util.js), the   *)
(* OPUS -> PCM reconstruction and the WAV container writer (audio.js).     *)
(*                                                                         *)
(* Conventions.  A JavaScript value that may be null is held as a sequence *)
(* of length 0 (null / undefined) or 1 (the value).  A packet's chunk is a *)
(* payload number, 0 standing for the null chunk of a speaking-start       *)
(* marker.  A Buffer is a record [length, bytes] whose bytes field maps    *)
(* the 0-based offsets holding a non-zero byte to that byte, so that a     *)
(* zero-filled Buffer.alloc(n) is [length |-> n, bytes |-> empty].         *)
(***************************************************************************)
EXTENDS Integers, Sequences, FiniteSets

VARIABLES
    \* ---- ClipQueue (util.js) ----
    queue,            \* ClipQueue.queue: the retained packets, head first
    storageDuration,  \* ClipQueue.storageDuration
    now,              \* the value Date.now() returns
    appended,         \* history: every non-null packet handed to add, in order
    \* ---- opusToPCM (audio.js) ----
    opusPackets,      \* argument: the flattened packet list
    duration,         \* argument: clip duration
    t0,               \* argument: start of the clip
    audioPc,          \* "idle" | "input" | "done" | "threw"
    pcmData,          \* the value returned: <<>> for null, <<buffer>> otherwise
    pcmPackets,       \* the segments built by the first loop
    decodeCalls,      \* history: indices of opusPackets handed to OPUS.decode
    placing,          \* history: firstTimestamp and, per segment, dataAlign and
                      \* the offsets of data read and written by the write loop
    mixed,            \* history: the sample writes of the write loop, last first
    \* ---- pcmToWAV / getWAVDuration (audio.js) ----
    rawPCM,           \* argument of pcmToWAV
    wavPc,            \* "idle" | "input" | "wrapped" | "measured"
    wavData,          \* the value returned by pcmToWAV, <<>> before the call
    wavDuration,      \* BYTES_PER_MS times the value returned by getWAVDuration
    \* ---- GuildInfo (util.js) and createWAV (clip.js) ----
    userClips,        \* GuildInfo.userClips: user id -> <<>> (no entry) or <<queue>>
    clipPc,           \* "served" when the step taken was a clip command, else "idle"
    clipWav,          \* the value createWAV returned to that command, <<>> for null
    \* ---- GuildInfo (util.js), the commands and the voice connection ----
    guildInfo,        \* GuildInfo: channel, connection, channelTimeout (<<>> for null)
    voice,            \* the guild's voice connection in @discordjs/voice: status,
                      \* 'start' listeners on its receiver, receiver.subscriptions,
                      \* the pipes of each user's stream, the packets stamped
                      \* by a timestamper and not written yet, and (history)
                      \* the users whose subscription has ended
    where,            \* member -> the voice channel the member is in, <<>> for none
    event,            \* the callback that ran last and what it answered
    process           \* the Node process: alive, whether its interaction
                      \* handler has caught an exception, and the number of
                      \* intervals it has scheduled

queueVars == <<queue, storageDuration, now, appended>>
audioVars == <<opusPackets, duration, t0, audioPc, pcmData, pcmPackets, decodeCalls,
               placing, mixed>>
wavVars == <<rawPCM, wavPc, wavData, wavDuration>>
guildVars == <<userClips, clipPc, clipWav>>
botVars == <<guildInfo, voice, where, event, process>>
vars == <<queue, storageDuration, now, appended,
          opusPackets, duration, t0, audioPc, pcmData, pcmPackets, decodeCalls,
          placing, mixed,
          rawPCM, wavPc, wavData, wavDuration,
          userClips, clipPc, clipWav,
          guildInfo, voice, where, event, process>>

----------------------------------------------------------------------------
(* Bounds of the model *)

\* timestamps and the clock of the queue model range over 0..MaxTime
MaxTime == 3
\* retention windows range over 0..MaxRetention
MaxRetention == 2
\* at most this many packets are handed to add
MaxAppends == 4
\* opusToPCM is given at most this many packets
MaxPackets == 4
\* and at most this many when some payloads are rejected by the decoder
MaxBadPackets == 3
\* their timestamps, t0 and duration range over 0..MaxTs
MaxTs == 1
\* pcmToWAV is given at most this many bytes
MaxPcmLen == 4
\* the number of sample writes into one frame of the data buffer
MaxMixes == 4
\* the number of 'start' listeners registered on one receiver
MaxListeners == 2
\* the last value of the clock in a voice session
MaxSessionTime == 1
\* the number of packets stored in a voice session, all users together
MaxSessionPackets == 2
\* the longest clip and the largest tMinus requested
MaxClip == 1

\* the sequences over S of length at most n
SeqsUpTo(S, n) == UNION {[1..k -> S] : k \in 0..n}

Min(a, b) == IF a < b THEN a ELSE b
Max(a, b) == IF a > b THEN a ELSE b

----------------------------------------------------------------------------
(* Packets: util.js, TimestampedOpusPacket *)

NullChunk == 0

\* the payloads the transport delivers (numbers standing for OPUS frames)
Payloads == {1, 2}

\* timestamped(chunk): a packet of audio data
Timestamped(ts, chunk) == [timestamp |-> ts, chunk |-> chunk, isStart |-> FALSE]

\* the object flagSpeakingStart builds
StartMarker(ts) == [timestamp |-> ts, chunk |-> NullChunk, isStart |-> TRUE]

----------------------------------------------------------------------------
(* ClipQueue: util.js *)

\* truncate with an if in place of the while: at most one packet is evicted
truncateOnce(q, retention, latestTimestamp) ==
    IF q # <<>> /\ Head(q).timestamp + retention < latestTimestamp
    THEN Tail(q)
    ELSE q

RECURSIVE truncateInclusive(_, _, _)
\* truncate with <= in place of <: a packet exactly retention old is evicted
truncateInclusive(q, retention, latestTimestamp) ==
    IF q # <<>> /\ Head(q).timestamp + retention <= latestTimestamp
    THEN truncateInclusive(Tail(q), retention, latestTimestamp)
    ELSE q

\* truncate that never evicts
truncateNever(q, retention, latestTimestamp) == q

RECURSIVE truncateFilter(_, _, _)
\* truncate that removes every packet outside the window, wherever it lies
truncateFilter(q, retention, latestTimestamp) ==
    IF q = <<>>
    THEN <<>>
    ELSE IF Head(q).timestamp + retention < latestTimestamp
         THEN truncateFilter(Tail(q), retention, latestTimestamp)
         ELSE <<Head(q)>> \o truncateFilter(Tail(q), retention, latestTimestamp)

RECURSIVE truncateEarly(_, _, _)
\* truncate with a window one millisecond short
truncateEarly(q, retention, latestTimestamp) ==
    IF q # <<>> /\ Head(q).timestamp + retention - 1 < latestTimestamp
    THEN truncateEarly(Tail(q), retention, latestTimestamp)
    ELSE q

RECURSIVE truncate(_, _, _)
\* while (!queue.isEmpty() && queue.first.timestamp + storageDuration < latest) shift()
truncate(q, retention, latestTimestamp) ==
    IF q # <<>> /\ Head(q).timestamp + retention < latestTimestamp
    THEN truncate(Tail(q), retention, latestTimestamp)
    ELSE q

\* add that calls truncate(Date.now()) when handed null
addNullTruncates(q, retention, data) ==
    IF data = <<>>
    THEN truncate(q, retention, now)
    ELSE truncate(Append(q, data[1]), retention, data[1].timestamp)

\* add(data): data is <<>> (null / undefined) or <<packet>>
add(q, retention, data) ==
    IF data = <<>>
    THEN q
    ELSE truncate(Append(q, data[1]), retention, data[1].timestamp)

\* flagSpeakingStart(): add a marker stamped Date.now()
flagSpeakingStart(q, retention, clock) ==
    add(q, retention, <<StartMarker(clock)>>)

QueueInit ==
    /\ queue = <<>>
    /\ storageDuration \in 0..MaxRetention
    /\ now = 0
    /\ appended = <<>>

\* ClipQueue._write / add with a packet whose timestamp was taken earlier or
\* later than those already stored
Add(ts, chunk) ==
    /\ Len(appended) < MaxAppends
    /\ queue' = add(queue, storageDuration, <<Timestamped(ts, chunk)>>)
    /\ appended' = Append(appended, Timestamped(ts, chunk))
    /\ UNCHANGED <<storageDuration, now>>

\* add(null): the early return
AddNull ==
    /\ queue' = add(queue, storageDuration, <<>>)
    /\ UNCHANGED <<storageDuration, now, appended>>

FlagSpeakingStart ==
    /\ Len(appended) < MaxAppends
    /\ queue' = flagSpeakingStart(queue, storageDuration, now)
    /\ appended' = Append(appended, StartMarker(now))
    /\ UNCHANGED <<storageDuration, now>>

\* the wall clock advances
Tick ==
    /\ now < MaxTime
    /\ now' = now + 1
    /\ UNCHANGED <<queue, storageDuration, appended>>

----------------------------------------------------------------------------
(* Buffers: the operations of Node's Buffer that audio.js uses *)

EmptyBytes == [i \in {} |-> 0]

\* Buffer.alloc(n): n zero bytes
BufferAlloc(n) == [length |-> n, bytes |-> EmptyBytes]

\* Buffer.from(array): b[1] is the byte at offset 0
BufferFrom(b) ==
    [length |-> Len(b),
     bytes |-> [i \in {j \in 0..(Len(b) - 1) : b[j + 1] # 0} |-> b[i + 1]]]

\* buf[i]
ByteAt(buf, i) == IF i \in DOMAIN buf.bytes THEN buf.bytes[i] ELSE 0

\* buf[i] = b
SetByte(buf, i, b) ==
    [buf EXCEPT !.bytes =
        IF b = 0
        THEN [j \in (DOMAIN @) \ {i} |-> @[j]]
        ELSE [j \in (DOMAIN @) \cup {i} |-> IF j = i THEN b ELSE @[j]]]

\* buf.readInt16LE(offset): two's complement, low byte first
readInt16LE(buf, offset) ==
    LET u == ByteAt(buf, offset) + 256 * ByteAt(buf, offset + 1)
    IN  IF u >= 32768 THEN u - 65536 ELSE u

\* buf.writeInt16LE(value, offset)
writeInt16LE(buf, value, offset) ==
    LET u == value % 65536
    IN  SetByte(SetByte(buf, offset, u % 256), offset + 1, u \div 256)

\* buf.writeUInt32LE(value) at offset 0
writeUInt32LE(buf, value) ==
    LET b0 == value % 256
        b1 == (value \div 256) % 256
        b2 == (value \div 65536) % 256
        b3 == (value \div 16777216) % 256
    IN  SetByte(SetByte(SetByte(SetByte(buf, 0, b0), 1, b1), 2, b2), 3, b3)

\* buf.readUInt32LE(offset)
readUInt32LE(buf, offset) ==
    ByteAt(buf, offset) + 256 * ByteAt(buf, offset + 1)
        + 65536 * ByteAt(buf, offset + 2) + 16777216 * ByteAt(buf, offset + 3)

\* Buffer.concat([a, b])
Concat2(a, b) ==
    [length |-> a.length + b.length,
     bytes |-> [i \in (DOMAIN a.bytes) \cup {j + a.length : j \in DOMAIN b.bytes} |->
                  IF i < a.length THEN a.bytes[i] ELSE b.bytes[i - a.length]]]

RECURSIVE BufferConcat(_)
\* Buffer.concat(list)
BufferConcat(list) ==
    IF list = <<>> THEN BufferAlloc(0)
    ELSE Concat2(Head(list), BufferConcat(Tail(list)))

\* the bytes of 16-bit samples, low byte first (the decoder's output format)
RECURSIVE SamplesToBuffer(_)
SamplesToBuffer(samples) ==
    IF samples = <<>> THEN BufferAlloc(0)
    ELSE Concat2(writeInt16LE(BufferAlloc(2), Head(samples), 0),
                 SamplesToBuffer(Tail(samples)))

----------------------------------------------------------------------------
(* audio.js: constants and the decoder *)

\* HEADERS.TOP: 'RIFF'
HEADERS_TOP == <<82, 73, 70, 70>>

\* HEADERS.MIDDLE: 'WAVE', 'fmt ', 16, PCM, stereo, 48000, 192000, 4, 16, 'data'
HEADERS_MIDDLE ==
    <<87, 65, 86, 69,  102, 109, 116, 32,  16, 0, 0, 0,  1, 0,  2, 0,
      128, 187, 0, 0,  0, 238, 2, 0,  4, 0,  16, 0,  100, 97, 116, 97>>

HEADER_LENGTH == Len(HEADERS_TOP) + Len(HEADERS_MIDDLE)
HEADER_LENGTH_LESS == HEADER_LENGTH - 8
BYTES_PER_MS == 192

\* The decoder is external.  Each payload decodes to one stereo frame of
\* 16-bit samples <<left, right>>; the null chunk of a marker is rejected.
DecodedSamples(chunk) == IF chunk = 1 THEN <<258, 0>> ELSE <<-3, 7>>

\* OPUS.decode(chunk) throws on a chunk that is no OPUS frame
DecodeThrows(chunk) == chunk \notin Payloads

\* OPUS.decode(chunk)
OPUS_decode(chunk) == SamplesToBuffer(DecodedSamples(chunk))

----------------------------------------------------------------------------
(* audio.js: opusToPCM.  firstTimestamp and lastTimestamp hold BYTES_PER_MS *)
(* times the code's values, so that chunk.length / BYTES_PER_MS is exact.   *)
(* The code computes in IEEE doubles; the decoder's frame lengths (480,     *)
(* 960, 1920, 3840 bytes: 2.5 to 20 ms) divide exactly, so that rounding    *)
(* is not modelled.                                                         *)

\* mix16 that adds the two samples
mix16Sum(a, b) == a + b

\* if (b == 0) return a; return Math.floor((a + b) / 2)
mix16(a, b) == IF b = 0 THEN a ELSE (a + b) \div 2

\* InRange without the lower bound: packets before t0 pass the filter
InRangeNoLower(packet, dur, start) == ~(packet.timestamp > start + dur)

\* InRange with >= for the upper bound: a packet at t0 + duration is left out
InRangeExclusive(packet, dur, start) ==
    ~(packet.timestamp < start \/ packet.timestamp >= start + dur)

\* the negation of: packet.timestamp < t0 || packet.timestamp > t0 + duration
InRange(packet, dur, start) ==
    ~(packet.timestamp < start \/ packet.timestamp > start + dur)

\* OpensSegment without the isStart test: a marker after the first packet
\* falls through to the decoder
OpensSegmentFirstOnly(packet, currentPCM) == currentPCM = <<>>

\* packet.isStart || currentPCM === null
OpensSegment(packet, currentPCM) == packet.isStart \/ currentPCM = <<>>

\* the state of the first loop before any packet is read
LoopStart(start) ==
    [pcmPackets |-> <<>>, currentPCM |-> <<>>,
     firstTimestamp |-> start * BYTES_PER_MS, lastTimestamp |-> start * BYTES_PER_MS,
     calls |-> <<>>, threw |-> FALSE]

\* one iteration of: for (let packet of opusPackets)
LoopStep(acc, packets, i, dur, start) ==
    LET packet == packets[i]
        ts == packet.timestamp * BYTES_PER_MS
    IN  IF acc.threw \/ ~InRange(packet, dur, start) THEN acc
        ELSE IF OpensSegment(packet, acc.currentPCM)
        THEN [acc EXCEPT
                !.pcmPackets = IF acc.currentPCM # <<>>
                               THEN Append(@, acc.currentPCM[1]) ELSE @,
                !.firstTimestamp = Min(@, ts),
                !.lastTimestamp = Max(@, ts),
                !.currentPCM = <<[timestampStart |-> packet.timestamp, chunks |-> <<>>]>>]
        ELSE IF DecodeThrows(packet.chunk)
        THEN [acc EXCEPT !.calls = Append(@, i), !.threw = TRUE]
        ELSE LET chunk == OPUS_decode(packet.chunk)
             IN  [acc EXCEPT
                    !.calls = Append(@, i),
                    !.currentPCM = <<[@[1] EXCEPT !.chunks = Append(@, chunk)]>>,
                    !.firstTimestamp = Min(@, ts - chunk.length),
                    !.lastTimestamp = Max(@, ts)]

RECURSIVE Loop(_, _, _, _, _)
\* the first loop, from packet i on, and the push of the last segment
Loop(acc, packets, i, dur, start) ==
    IF i > Len(packets)
    THEN IF acc.currentPCM # <<>> /\ ~acc.threw
         THEN [acc EXCEPT !.pcmPackets = Append(@, acc.currentPCM[1])]
         ELSE acc
    ELSE Loop(LoopStep(acc, packets, i, dur, start), packets, i + 1, dur, start)

\* DataLength without the final * 4: a count of frames taken for a count of bytes
DataLengthInFrames(firstTimestamp, lastTimestamp) ==
    (lastTimestamp - firstTimestamp) \div 4

\* Math.floor((lastTimestamp - firstTimestamp) * BYTES_PER_MS / 4) * 4
DataLength(firstTimestamp, lastTimestamp) ==
    ((lastTimestamp - firstTimestamp) \div 4) * 4

\* DataAlign that returns sampleNumber, not sampleNumber * 4
DataAlignSampleNumber(timestamp, firstTimestamp) ==
    (timestamp * BYTES_PER_MS - firstTimestamp) \div 4

\* dataAlign: Math.floor(Math.ceil((timestamp - firstTimestamp) * BYTES_PER_MS) / 4) * 4
DataAlign(timestamp, firstTimestamp) ==
    ((timestamp * BYTES_PER_MS - firstTimestamp) \div 4) * 4

\* WriteGuard without the test against data.length
WriteGuardPcmOnly(pcmOffset, pcmLength, dataAlign, dataLength) ==
    pcmOffset < pcmLength

\* pcmOffset < pcm.length && dataAlign + pcmOffset < data.length - 1
WriteGuard(pcmOffset, pcmLength, dataAlign, dataLength) ==
    pcmOffset < pcmLength /\ dataAlign + pcmOffset < dataLength - 1

RECURSIVE RunAccesses(_, _, _, _)
\* the offsets of data that the write loop reads and writes, from pcmOffset on
RunAccesses(dataLength, pcmLength, dataAlign, pcmOffset) ==
    IF WriteGuard(pcmOffset, pcmLength, dataAlign, dataLength)
    THEN {dataAlign + pcmOffset}
            \cup RunAccesses(dataLength, pcmLength, dataAlign, pcmOffset + 2)
    ELSE {}

RECURSIVE WriteRun(_, _, _, _)
\* while (...) { num = pcm.readInt16LE; dataNum = data.readInt16LE; data.writeInt16LE }
WriteRun(data, pcm, dataAlign, pcmOffset) ==
    IF WriteGuard(pcmOffset, pcm.length, dataAlign, data.length)
    THEN LET num == readInt16LE(pcm, pcmOffset)
             dataNum == readInt16LE(data, dataAlign + pcmOffset)
         IN  WriteRun(writeInt16LE(data, mix16(num, dataNum), dataAlign + pcmOffset),
                      pcm, dataAlign, pcmOffset + 2)
    ELSE data

RECURSIVE Place(_, _, _, _)
\* for (let i = 0; i < pcmPackets.length; i++): place segment i and the rest
Place(data, segments, i, firstTimestamp) ==
    IF i > Len(segments) THEN data
    ELSE Place(WriteRun(data, BufferConcat(segments[i].chunks),
                        DataAlign(segments[i].timestampStart, firstTimestamp), 0),
               segments, i + 1, firstTimestamp)

\* opusToPCM(opusPackets, duration, t0): the value returned (<<>> for null),
\* with the segments built and the calls made to the decoder
opusToPCM(packets, dur, start) ==
    LET acc == Loop(LoopStart(start), packets, 1, dur, start)
    IN  [threw |-> acc.threw,
         pcmPackets |-> acc.pcmPackets,
         calls |-> acc.calls,
         firstTimestamp |-> acc.firstTimestamp,
         placing |->
            IF acc.threw \/ Len(acc.pcmPackets) = 0 THEN <<>>
            ELSE <<[firstTimestamp |-> acc.firstTimestamp,
                    lastTimestamp |-> acc.lastTimestamp,
                    runs |-> [k \in DOMAIN acc.pcmPackets |->
                        LET at == DataAlign(acc.pcmPackets[k].timestampStart,
                                            acc.firstTimestamp)
                        IN  [dataAlign |-> at,
                             accessed |-> RunAccesses(
                                 DataLength(acc.firstTimestamp, acc.lastTimestamp),
                                 BufferConcat(acc.pcmPackets[k].chunks).length,
                                 at, 0)]]]>>,
         data |-> IF acc.threw \/ Len(acc.pcmPackets) = 0 THEN <<>>
                  ELSE <<Place(BufferAlloc(DataLength(acc.firstTimestamp, acc.lastTimestamp)),
                               acc.pcmPackets, 1, acc.firstTimestamp)>>]

----------------------------------------------------------------------------
(* audio.js: pcmToWAV and getWAVDuration *)

\* sizeBuffer(size)
sizeBuffer(size) == writeUInt32LE(BufferAlloc(4), size)

\* pcmToWAV that writes the total size into the payload-size field too
pcmToWAVSameSize(pcm) ==
    BufferConcat(<<BufferFrom(HEADERS_TOP),
                   sizeBuffer(HEADER_LENGTH_LESS + pcm.length),
                   BufferFrom(HEADERS_MIDDLE),
                   sizeBuffer(HEADER_LENGTH_LESS + pcm.length),
                   pcm>>)

\* pcmToWAV(rawPCM)
pcmToWAV(pcm) ==
    BufferConcat(<<BufferFrom(HEADERS_TOP),
                   sizeBuffer(HEADER_LENGTH_LESS + pcm.length),
                   BufferFrom(HEADERS_MIDDLE),
                   sizeBuffer(pcm.length),
                   pcm>>)

\* getWAVDuration(wavData) is this number divided by BYTES_PER_MS
getWAVDurationBytes(wav) == wav.length - HEADER_LENGTH

----------------------------------------------------------------------------
(* util.js: GuildInfo.userClips; clip.js: createWAV *)

\* the members of the voice channel
Users == {1, 2}

\* getUserQueue that builds a new ClipQueue on every call
getUserQueueAlwaysNew(clips, userId) == [clips EXCEPT ![userId] = <<<<>>>>]

\* getUserQueue that returns a new ClipQueue without storing it in the map
getUserQueueNoStore(clips, userId) == clips

\* getUserQueue(userId): the map after the call; the queue returned is its
\* entry for userId
getUserQueue(clips, userId) ==
    IF clips[userId] # <<>>
    THEN clips
    ELSE [clips EXCEPT ![userId] = <<<<>>>>]

RECURSIVE GetUserQueues(_, _)
\* userIds.map(id => guildInfo.getUserQueue(id)): the map after the calls
GetUserQueues(clips, userIds) ==
    IF userIds = <<>>
    THEN clips
    ELSE GetUserQueues(getUserQueue(clips, Head(userIds)), Tail(userIds))

RECURSIVE FlatPackets(_, _)
\* userClips.flatMap(clips => clips.packets)
FlatPackets(clips, userIds) ==
    IF userIds = <<>>
    THEN <<>>
    ELSE clips[Head(userIds)][1] \o FlatPackets(clips, Tail(userIds))

\* createWAV(guildInfo, userIds, duration, tMinus) called when Date.now() is
\* start: the map it leaves and the value it returns (<<>> for null)
createWAV(clips, userIds, dur, tMinus, start) ==
    IF userIds = <<>>
    THEN [userClips |-> clips, threw |-> FALSE, wav |-> <<>>]
    ELSE LET after == GetUserQueues(clips, userIds)
             packets == FlatPackets(after, userIds)
             r == opusToPCM(packets, dur, start - tMinus)
         IN  IF packets = <<>>
             THEN [userClips |-> after, threw |-> FALSE, wav |-> <<>>]
             ELSE [userClips |-> after,
                   threw |-> r.threw,
                   wav |-> IF r.threw \/ r.data = <<>>
                           THEN <<>>
                           ELSE <<pcmToWAV(r.data[1])>>]

----------------------------------------------------------------------------
(* util.js: GuildInfo; join.js: joinChannel; index.js: the interaction handler *)

\* config.botId: the bot as a member of a voice channel
Bot == 0

Members == Users \cup {Bot}

\* the voice channels of the guild
Channels == {1, 2}

\* a voice channel or none: channel objects and null
ChannelOrNone == {<<>>} \cup {<<c>> : c \in Channels}

\* a member cache that never lists the bot
MembersOfHumans(w, ch) == {m \in Users : w[m] = ch}

\* channel.members, given where every member is
MembersOf(w, ch) == {m \in Members : w[m] = ch}

\* new GuildInfo(guildId)
NewGuildInfo == [channel |-> <<>>, connection |-> <<>>, channelTimeout |-> <<>>]

\* the guild has no voice connection yet
NoVoice == [status |-> "none", listeners |-> 0, subscriptions |-> {},
            pipes |-> [u \in Users |-> 0], ended |-> {},
          inFlight |-> [u \in Users |-> <<>>]]

\* a voice connection after destroy(): its receiver delivers nothing any more
Destroyed == [status |-> "destroyed", listeners |-> 0, subscriptions |-> {},
              pipes |-> [u \in Users |-> 0], ended |-> {},
          inFlight |-> [u \in Users |-> <<>>]]

\* a getter that would answer yes without a channel
inChannelAlways(info) == TRUE

\* get inChannel()
inChannel(info) == info.channel # <<>>

\* disconnect(): the GuildInfo and the voice connection after the call
disconnect(info, v) ==
    IF ~inChannel(info)
    THEN [guildInfo |-> info, voice |-> v, cleared |-> 0]
    ELSE [guildInfo |-> [info EXCEPT !.channelTimeout = <<>>,
                                     !.channel = <<>>,
                                     !.connection = <<>>],
          voice |-> Destroyed,
          cleared |-> IF info.channelTimeout # <<>> THEN 1 ELSE 0]

\* the test of checkTimeout without the search for the bot
StaysConnectedAnyHuman(members) == (members \ {Bot}) # {}

\* members?.size > 0 && channel.members.find(m => m.user.id == config.botId)
StaysConnected(members) == (members \ {Bot}) # {} /\ Bot \in members

\* checkTimeout()
checkTimeout(info, v, w) ==
    IF inChannel(info) /\ StaysConnected(MembersOf(w, info.channel))
    THEN [guildInfo |-> info, voice |-> v, cleared |-> 0]
    ELSE disconnect(info, v)

\* startTimeout that never calls setInterval
startTimeoutNever(info) == info

\* startTimeout()
startTimeout(info) ==
    IF info.channelTimeout # <<>>
    THEN info
    ELSE [info EXCEPT !.channelTimeout = <<"interval">>]

\* a startTimeout that calls setInterval whether or not an interval is
\* scheduled already
startTimeoutSetsAlways(info) == 1

\* startTimeout(): the number of intervals it schedules with setInterval
startTimeoutSets(info) == IF info.channelTimeout # <<>> THEN 0 ELSE 1

\* joinVoiceChannel({guildId, ...}): the library hands back the guild's
\* connection when it has one that is not destroyed (existing), or makes one
joinVoiceChannel(v, existing) ==
    IF existing
    THEN v
    ELSE [status |-> "live", listeners |-> 0, subscriptions |-> {},
          pipes |-> [u \in Users |-> 0], ended |-> {},
          inFlight |-> [u \in Users |-> <<>>]]

\* joinChannel(channel, guildMap): ch is the channel of the member who asks
joinChannel(info, v, w, ch, existing) ==
    IF ch = <<>>
    THEN [guildInfo |-> info, voice |-> v, set |-> 0, out |-> "not in a voice channel"]
    ELSE IF inChannel(info) /\ info.channel = ch /\ Bot \in MembersOf(w, ch)
         THEN [guildInfo |-> info, voice |-> v, set |-> 0, out |-> "already connected"]
         ELSE LET connection == joinVoiceChannel(v, existing)
              IN  [guildInfo |-> startTimeout([info EXCEPT !.channel = ch,
                                                            !.connection = <<"connection">>]),
                   voice |-> [connection EXCEPT !.listeners = @ + 1],
                   set |-> startTimeoutSets(info),
                   out |-> "joined"]

\* an event loop that would take its next event with packets still in the
\* pipes
TicksDrainedAlways(v) == TRUE

\* a packet that a timestamper has stamped reaches _write in the same turn
\* of the event loop, before the process.nextTick queue is empty: the loop
\* takes its next event once no packet is in a pipe
TicksDrained(v) == \A u \in Users : v.inFlight[u] = <<>>

RECURSIVE Written(_, _, _)
\* _write(chunk) for the packets of a pipe, one after another
Written(q, retention, packets) ==
    IF packets = <<>>
    THEN q
    ELSE Written(add(q, retention, <<Head(packets)>>), retention, Tail(packets))

\* listeners that would pipe the stream without looking at the
\* subscriptions: one more pipe by every listener
PipesMadeByAll(subscriptions, userId, n) == n

\* the pipes the n 'start' listeners make for the user: a listener returns
\* if receiver.subscriptions.has(userId), so only the first one of a user
\* without a subscription does receiver.subscribe(...).pipe(...).pipe(...)
PipesMade(subscriptions, userId, n) ==
    IF n = 0 \/ userId \in subscriptions THEN 0 ELSE 1

RECURSIVE Piped(_, _, _, _)
\* a chunk of the user's stream through n pipes: every pipe has its own
\* timestamper, whose packet _write adds to the queue
Piped(q, retention, packet, n) ==
    IF n = 0
    THEN q
    ELSE Piped(add(q, retention, <<packet>>), retention, packet, n - 1)

\* a clip handler that would await between reading the buffers and
\* producing the bytes: callbacks run at every position
OffStackAnywhere(pc) == TRUE

\* the clip handler is off the call stack: before it starts and while it
\* awaits interaction.reply; createWAV between its first and last line
\* awaits nothing, so no callback runs while it is at "read"
OffStack(pc) == pc \in {"idle", "replying"}

\* the interaction handler without try and catch: the exception of a
\* command leaves the listener and ends the process
CatchNothing(proc, threw) ==
    IF threw THEN [proc EXCEPT !.alive = FALSE] ELSE proc

\* try { await command.execute(...) } catch (err) { ... }
Catch(proc, threw) ==
    IF threw THEN [proc EXCEPT !.caught = TRUE] ELSE proc

\* the answer of the catch block: followUp if replied or deferred, else reply
ErrorAnswer(replied) == IF replied THEN "error follow-up" ELSE "error reply"

\* what a callback leaves in event
Event(op, arg, out) == [op |-> op, arg |-> arg, out |-> out]

----------------------------------------------------------------------------
(* The parts at rest *)

QueueIdle ==
    /\ queue = <<>>
    /\ storageDuration = 0
    /\ now = 0
    /\ appended = <<>>

AudioIdle ==
    /\ opusPackets = <<>>
    /\ duration = 0
    /\ t0 = 0
    /\ audioPc = "idle"
    /\ pcmData = <<>>
    /\ pcmPackets = <<>>
    /\ decodeCalls = <<>>
    /\ placing = <<>>
    /\ mixed = <<>>

WavIdle ==
    /\ rawPCM = BufferAlloc(0)
    /\ wavPc = "idle"
    /\ wavData = <<>>
    /\ wavDuration = 0

GuildIdle ==
    /\ userClips = [u \in Users |-> <<>>]
    /\ clipPc = "idle"
    /\ clipWav = <<>>

BotIdle ==
    /\ guildInfo = NewGuildInfo
    /\ voice = NoVoice
    /\ where = [m \in Members |-> <<>>]
    /\ event = Event("none", <<>>, "none")
    /\ process = [alive |-> TRUE, caught |-> FALSE, timers |-> 0]

----------------------------------------------------------------------------
(* Spec: a ClipQueue fed packets in any order of timestamps *)

Init == QueueInit /\ AudioIdle /\ WavIdle /\ GuildIdle /\ BotIdle

Next ==
    \/ \E ts \in 0..MaxTime, chunk \in Payloads :
          Add(ts, chunk) /\ UNCHANGED <<audioVars, wavVars, guildVars, botVars>>
    \/ AddNull /\ UNCHANGED <<audioVars, wavVars, guildVars, botVars>>
    \/ FlagSpeakingStart /\ UNCHANGED <<audioVars, wavVars, guildVars, botVars>>
    \/ Tick /\ UNCHANGED <<audioVars, wavVars, guildVars, botVars>>

Spec == Init /\ [][Next]_vars

----------------------------------------------------------------------------
(* SpecAudio: opusToPCM applied to every packet list within the bounds *)

AudioPackets ==
    {Timestamped(ts, chunk) : ts \in 0..MaxTs, chunk \in Payloads}
        \cup {StartMarker(ts) : ts \in 0..MaxTs}

\* the arguments of a call of opusToPCM: up to n packets of the set S
AudioInputs(S, n) ==
    /\ QueueIdle /\ WavIdle /\ GuildIdle /\ BotIdle
    /\ opusPackets \in SeqsUpTo(S, n)
    /\ duration \in 0..MaxTs
    /\ t0 \in 0..MaxTs
    /\ audioPc = "input"
    /\ pcmData = <<>>
    /\ pcmPackets = <<>>
    /\ decodeCalls = <<>>
    /\ placing = <<>>
    /\ mixed = <<>>

AudioInit == AudioInputs(AudioPackets, MaxPackets)

\* let pcmData = opusToPCM(opusPackets, duration, t0)
Reconstruct ==
    /\ audioPc = "input"
    /\ \E r \in {opusToPCM(opusPackets, duration, t0)} :
           /\ audioPc' = IF r.threw THEN "threw" ELSE "done"
           /\ pcmData' = r.data
           /\ pcmPackets' = r.pcmPackets
           /\ decodeCalls' = r.calls
           /\ placing' = r.placing
    /\ UNCHANGED <<opusPackets, duration, t0, mixed, queueVars, wavVars, guildVars, botVars>>

AudioNext == Reconstruct

SpecAudio == AudioInit /\ [][AudioNext]_vars

----------------------------------------------------------------------------
(* SpecDecode: opusToPCM applied to packet lists in which some payloads are *)
(* not OPUS frames, so that OPUS.decode throws                              *)

\* payloads the decoder rejects
BadPayloads == {3}

BadPackets == {Timestamped(ts, chunk) : ts \in 0..MaxTs, chunk \in BadPayloads}

DecodeInit == AudioInputs(AudioPackets \cup BadPackets, MaxBadPackets)

SpecDecode == DecodeInit /\ [][AudioNext]_vars

----------------------------------------------------------------------------
(* SpecWav: pcmToWAV and getWAVDuration applied to every buffer within the bounds *)

PcmBytes == {0, 1, 255}

WavInit ==
    /\ QueueIdle /\ AudioIdle /\ GuildIdle /\ BotIdle
    /\ rawPCM \in {BufferFrom(b) : b \in SeqsUpTo(PcmBytes, MaxPcmLen)}
    /\ wavPc = "input"
    /\ wavData = <<>>
    /\ wavDuration = 0

\* let wavData = pcmToWAV(pcmData)
Wrap ==
    /\ wavPc = "input"
    /\ wavData' = <<pcmToWAV(rawPCM)>>
    /\ wavPc' = "wrapped"
    /\ UNCHANGED <<rawPCM, wavDuration, queueVars, audioVars, guildVars, botVars>>

\* getWAVDuration(wavData)
Measure ==
    /\ wavPc = "wrapped"
    /\ wavDuration' = getWAVDurationBytes(wavData[1])
    /\ wavPc' = "measured"
    /\ UNCHANGED <<rawPCM, wavData, queueVars, audioVars, guildVars, botVars>>

WavNext == Wrap \/ Measure

SpecWav == WavInit /\ [][WavNext]_vars

----------------------------------------------------------------------------
(* SpecMix: the body of the write loop of opusToPCM applied again and again *)
(* to the two samples of one frame of the data buffer                       *)

\* samples a decoded chunk may hold: the ends of the 16-bit range and zero
Int16Samples == {-32768, -32767, -1, 0, 1, 32766, 32767}

\* the offsets of the two samples of a frame
FrameOffsets == {0, 2}

MixInit ==
    /\ QueueIdle /\ WavIdle /\ GuildIdle /\ BotIdle
    /\ opusPackets = <<>>
    /\ duration = 0
    /\ t0 = 0
    /\ audioPc = "placing"
    /\ pcmData = <<BufferAlloc(4)>>
    /\ pcmPackets = <<>>
    /\ decodeCalls = <<>>
    /\ placing = <<>>
    /\ mixed = <<>>

\* num = pcm.readInt16LE(pcmOffset); dataNum = data.readInt16LE(at);
\* data.writeInt16LE(mix16(num, dataNum), at)
MixSample(num, at) ==
    /\ audioPc = "placing"
    /\ Len(mixed) < MaxMixes
    /\ LET dataNum == readInt16LE(pcmData[1], at)
       IN  /\ pcmData' = <<writeInt16LE(pcmData[1], mix16(num, dataNum), at)>>
           /\ mixed' = <<[at |-> at, num |-> num, dataNum |-> dataNum,
                          value |-> mix16(num, dataNum)]>> \o mixed
    /\ UNCHANGED <<opusPackets, duration, t0, audioPc, pcmPackets, decodeCalls, placing,
                   queueVars, wavVars, guildVars, botVars>>

MixNext == \E num \in Int16Samples, at \in FrameOffsets : MixSample(num, at)

SpecMix == MixInit /\ [][MixNext]_vars

----------------------------------------------------------------------------
(* SpecClip: a voice session; members speak, their frames are stored, and *)
(* clips are requested at any time                                         *)

\* the id lists parseIds builds: one user, or members of the channel
UserIdLists == {ids \in SeqsUpTo(Users, Cardinality(Users)) :
                  \A i, j \in DOMAIN ids : i # j => ids[i] # ids[j]}

RECURSIVE StoredIn(_, _)
\* the number of packets in the queues of the users of the set
StoredIn(clips, us) ==
    IF us = {}
    THEN 0
    ELSE LET u == CHOOSE x \in us : TRUE
         IN  (IF clips[u] = <<>> THEN 0 ELSE Len(clips[u][1]))
                + StoredIn(clips, us \ {u})

ClipInit ==
    /\ queue = <<>>
    /\ storageDuration \in 0..MaxRetention
    /\ now = 0
    /\ appended = <<>>
    /\ AudioIdle /\ WavIdle /\ GuildIdle /\ BotIdle

\* receiver.speaking.on('start'): the marker is stored; the subscription
\* made on the first start pipes the user's frames into the same queue
SpeakingStart(userId) ==
    /\ StoredIn(userClips, Users) < MaxSessionPackets
    /\ LET clips == getUserQueue(userClips, userId)
       IN  userClips' = [clips EXCEPT ![userId] =
               <<flagSpeakingStart(clips[userId][1], storageDuration, now)>>]
    /\ clipPc' = "idle"
    /\ clipWav' = <<>>
    /\ UNCHANGED <<queueVars, audioVars, wavVars, botVars>>

\* a frame of a subscribed user: createTimestamper stamps it, _write adds it
ReceiveFrame(userId, chunk) ==
    /\ StoredIn(userClips, Users) < MaxSessionPackets
    /\ userClips[userId] # <<>>
    /\ userClips[userId][1] # <<>>
    /\ userClips' = [userClips EXCEPT ![userId] =
            <<add(userClips[userId][1], storageDuration, <<Timestamped(now, chunk)>>)>>]
    /\ clipPc' = "idle"
    /\ clipWav' = <<>>
    /\ UNCHANGED <<queueVars, audioVars, wavVars, botVars>>

\* the wall clock advances during the session
SessionTick ==
    /\ now < MaxSessionTime
    /\ now' = now + 1
    /\ clipPc' = "idle"
    /\ clipWav' = <<>>
    /\ UNCHANGED <<queue, storageDuration, appended, userClips, audioVars, wavVars, botVars>>

\* the clip command: const wavData = createWAV(guildInfo, ids, duration, tMinus)
ClipRequest(userIds, dur, tMinus) ==
    /\ \E r \in {createWAV(userClips, userIds, dur, tMinus, now)} :
           /\ userClips' = r.userClips
           /\ clipPc' = "served"
           /\ clipWav' = r.wav
    /\ UNCHANGED <<queueVars, audioVars, wavVars, botVars>>

ClipNext ==
    \/ \E userId \in Users : SpeakingStart(userId)
    \/ \E userId \in Users, chunk \in Payloads : ReceiveFrame(userId, chunk)
    \/ SessionTick
    \/ \E userIds \in UserIdLists, dur \in 0..MaxClip, tMinus \in 0..MaxClip :
          ClipRequest(userIds, dur, tMinus)

SpecClip == ClipInit /\ [][ClipNext]_vars

----------------------------------------------------------------------------
(* SpecIdle: the bot is asked to join and to leave, members come and go,  *)
(* and the idle check runs whenever its interval is scheduled             *)

IdleInit ==
    /\ QueueIdle /\ AudioIdle /\ WavIdle /\ GuildIdle /\ BotIdle

\* the join command of a member: execute -> joinChannel -> reply
JoinCommand(member) ==
    /\ process.alive
    /\ TicksDrained(voice)
    /\ \E existing \in (IF voice.status = "live" /\ voice.listeners < MaxListeners
                         THEN {TRUE, FALSE} ELSE {FALSE}) :
          LET r == joinChannel(guildInfo, voice, where, where[member], existing)
          IN  /\ guildInfo' = r.guildInfo
              /\ voice' = r.voice
              /\ process' = [process EXCEPT !.timers = @ + r.set]
              /\ event' = Event("join", <<member>>, r.out)
    /\ clipPc' = "idle"
    /\ clipWav' = <<>>
    /\ UNCHANGED <<where, userClips, queueVars, audioVars, wavVars>>

\* the leave command: guildMap.get(guildId).disconnect(), reply 'Left.'
LeaveCommand ==
    /\ process.alive
    /\ TicksDrained(voice)
    /\ LET r == disconnect(guildInfo, voice)
       IN  /\ guildInfo' = r.guildInfo
           /\ voice' = r.voice
           /\ process' = [process EXCEPT !.timers = @ - r.cleared]
    /\ event' = Event("leave", <<>>, "left")
    /\ clipPc' = "idle"
    /\ clipWav' = <<>>
    /\ UNCHANGED <<where, userClips, queueVars, audioVars, wavVars>>

\* the callback of setInterval(() => this.checkTimeout(), voiceTimeout)
IdleCheck ==
    /\ process.alive
    /\ TicksDrained(voice)
    /\ guildInfo.channelTimeout # <<>>
    /\ LET r == checkTimeout(guildInfo, voice, where)
       IN  /\ guildInfo' = r.guildInfo
           /\ voice' = r.voice
           /\ process' = [process EXCEPT !.timers = @ - r.cleared]
           /\ event' = Event("check", <<>>,
                   IF r.guildInfo = guildInfo THEN "stay" ELSE "disconnect")
    /\ clipPc' = "idle"
    /\ clipWav' = <<>>
    /\ UNCHANGED <<where, userClips, queueVars, audioVars, wavVars>>

\* a member enters, changes or leaves a voice channel; the bot is in a
\* channel only through a live voice connection
VoiceStateUpdate(member, ch) ==
    /\ process.alive
    /\ TicksDrained(voice)
    /\ where[member] # ch
    /\ (member = Bot /\ ch # <<>>) => voice.status = "live"
    /\ where' = [where EXCEPT ![member] = ch]
    /\ event' = Event("voiceState", <<member>>, "moved")
    /\ clipPc' = "idle"
    /\ clipWav' = <<>>
    /\ UNCHANGED <<guildInfo, voice, process, userClips, queueVars, audioVars, wavVars>>

IdleNext ==
    \/ \E member \in Users : JoinCommand(member)
    \/ LeaveCommand
    \/ IdleCheck
    \/ \E member \in Members, ch \in ChannelOrNone : VoiceStateUpdate(member, ch)

SpecIdle == IdleInit /\ [][IdleNext]_vars

\* the interval fires again and again for as long as it is scheduled
SpecIdleFair == SpecIdle /\ WF_vars(IdleCheck)

----------------------------------------------------------------------------
(* SpecGuild: a guild's session from join to leave and again: members     *)
(* speak, frames arrive, clips are asked for, while the clock advances    *)

\* the channel the members sit in
Lobby == CHOOSE c \in Channels : TRUE

\* what the transport delivers: an OPUS frame, and payloads that are none
GuildChunks == {CHOOSE c \in Payloads : TRUE} \cup BadPayloads

\* parseIds: the user of the option, or the members of the channel in the
\* order of its collection, or nobody for a role no member has
ClipIdLists ==
    {ids \in UserIdLists :
        \/ Len(ids) <= 1
        \/ Len(ids) = Cardinality(Users) /\ \A i \in 1..(Len(ids) - 1) : ids[i] < ids[i + 1]}

GuildInit ==
    /\ queue = <<>>
    /\ storageDuration = MaxRetention
    /\ now = 0
    /\ appended = <<>>
    /\ AudioIdle /\ WavIdle /\ GuildIdle
    /\ guildInfo = NewGuildInfo
    /\ voice = NoVoice
    /\ where = [m \in Members |-> IF m = Bot THEN <<>> ELSE <<Lobby>>]
    /\ event = Event("none", <<>>, "none")
    /\ process = [alive |-> TRUE, caught |-> FALSE, timers |-> 0]

RECURSIVE OnSpeakingStart(_, _, _, _, _)
\* the 'start' listeners of the receiver, n of them, run one after another:
\* each does getUserQueue(userId).flagSpeakingStart()
OnSpeakingStart(clips, userId, retention, clock, n) ==
    IF n = 0
    THEN clips
    ELSE LET created == getUserQueue(clips, userId)
         IN  OnSpeakingStart(
                 [created EXCEPT ![userId] =
                     <<flagSpeakingStart(created[userId][1], retention, clock)>>],
                 userId, retention, clock, n - 1)

\* receiver.speaking emits 'start' for a member of the bot's channel; the
\* first listener subscribes to the member's stream if nobody has
SpeakingEvent(userId) ==
    /\ process.alive
    /\ TicksDrained(voice)
    /\ voice.status = "live"
    /\ where[Bot] # <<>> /\ where[Bot] = where[userId]
    /\ StoredIn(userClips, Users) + voice.listeners <= MaxSessionPackets
    /\ userClips' = OnSpeakingStart(userClips, userId, storageDuration, now,
                                    voice.listeners)
    /\ voice' = [voice EXCEPT
                    !.subscriptions = IF voice.listeners > 0 THEN @ \cup {userId} ELSE @,
                    !.pipes[userId] = @ + PipesMade(voice.subscriptions, userId,
                                                    voice.listeners)]
    /\ event' = Event("start", <<userId>>, "flagged")
    /\ clipPc' = "idle"
    /\ clipWav' = <<>>
    /\ UNCHANGED <<guildInfo, where, process, queueVars, audioVars, wavVars>>

\* a frame of a subscribed member goes through the timestamper into the
\* member's queue
FrameArrives(userId, chunk) ==
    /\ process.alive
    /\ TicksDrained(voice)
    /\ voice.status = "live"
    /\ userId \in voice.subscriptions
    /\ where[Bot] # <<>> /\ where[Bot] = where[userId]
    /\ StoredIn(userClips, Users) + voice.pipes[userId] <= MaxSessionPackets
    /\ userClips' = [userClips EXCEPT ![userId] =
            <<Piped(userClips[userId][1], storageDuration, Timestamped(now, chunk),
                    voice.pipes[userId])>>]
    /\ event' = Event("frame", <<userId>>, "stored")
    /\ clipPc' = "idle"
    /\ clipWav' = <<>>
    /\ UNCHANGED <<guildInfo, voice, where, process, queueVars, audioVars, wavVars>>

\* createTimestamper: a frame of a subscribed member is stamped by the
\* timestamper of each pipe of the member's stream and is on its way to
\* the member's queue
FrameStamped(userId, chunk) ==
    /\ process.alive
    /\ TicksDrained(voice)
    /\ voice.status = "live"
    /\ userId \in voice.subscriptions
    /\ where[Bot] # <<>> /\ where[Bot] = where[userId]
    /\ StoredIn(userClips, Users) + voice.pipes[userId] <= MaxSessionPackets
    /\ voice' = [voice EXCEPT !.inFlight[userId] =
                    [i \in 1..voice.pipes[userId] |-> Timestamped(now, chunk)]]
    /\ event' = Event("stamp", <<userId>>, "in flight")
    /\ clipPc' = "idle"
    /\ clipWav' = <<>>
    /\ UNCHANGED <<guildInfo, where, process, userClips, queueVars, audioVars, wavVars>>

\* ClipQueue._write: the packets on their way reach the member's queue
FrameWritten(userId) ==
    /\ process.alive
    /\ voice.inFlight[userId] # <<>>
    /\ userClips' = [userClips EXCEPT ![userId] =
            <<Written(userClips[userId][1], storageDuration, voice.inFlight[userId])>>]
    /\ voice' = [voice EXCEPT !.inFlight[userId] = <<>>]
    /\ event' = Event("frame", <<userId>>, "stored")
    /\ clipPc' = "idle"
    /\ clipWav' = <<>>
    /\ UNCHANGED <<guildInfo, where, process, queueVars, audioVars, wavVars>>

\* the stream of a subscription ends after voiceReceiverTimeout without a
\* frame: the receiver forgets the subscription, the pipes end, and the
\* queue stays open ({ end: false })
SubscriptionEnds(userId) ==
    /\ process.alive
    /\ TicksDrained(voice)
    /\ voice.status = "live"
    /\ userId \in voice.subscriptions
    /\ voice' = [voice EXCEPT !.subscriptions = @ \ {userId},
                              !.pipes[userId] = 0,
                              !.ended = @ \cup {userId}]
    /\ event' = Event("end", <<userId>>, "closed")
    /\ clipPc' = "idle"
    /\ clipWav' = <<>>
    /\ UNCHANGED <<guildInfo, where, process, userClips, queueVars, audioVars, wavVars>>

\* the wall clock advances
ClockTick ==
    /\ process.alive
    /\ now < MaxSessionTime
    /\ now' = now + 1
    /\ event' = Event("tick", <<>>, "none")
    /\ clipPc' = "idle"
    /\ clipWav' = <<>>
    /\ UNCHANGED <<queue, storageDuration, appended, userClips, guildInfo, voice, where,
                   process, audioVars, wavVars>>

\* the clip command run by the interaction handler: execute, and the catch
\* block when createWAV throws; without the option, tMinus is the duration
ClipCommand(userIds, dur, tMinus) ==
    /\ process.alive
    /\ TicksDrained(voice)
    /\ IF ~inChannel(guildInfo)
       THEN /\ event' = Event("clip", <<>>, "not connected")
            /\ clipPc' = "idle"
            /\ clipWav' = <<>>
            /\ UNCHANGED <<userClips, process>>
       ELSE \E r \in {createWAV(userClips, userIds, dur, tMinus, now)} :
                /\ userClips' = r.userClips
                /\ clipPc' = "served"
                /\ clipWav' = r.wav
                /\ process' = Catch(process, r.threw)
                /\ event' = Event("clip", <<>>,
                        IF r.threw THEN ErrorAnswer(FALSE)
                        ELSE IF r.wav = <<>> THEN "no data" ELSE "clip sent")
    /\ UNCHANGED <<guildInfo, voice, where, queueVars, audioVars, wavVars>>

GuildNext ==
    \/ \E member \in Users : JoinCommand(member)
    \/ LeaveCommand
    \/ IdleCheck
    \/ \E ch \in {<<>>, guildInfo.channel} : VoiceStateUpdate(Bot, ch)
    \/ \E userId \in Users : SpeakingEvent(userId)
    \/ \E userId \in Users, chunk \in GuildChunks : FrameArrives(userId, chunk)
    \/ \E userId \in Users : SubscriptionEnds(userId)
    \/ ClockTick
    \/ \E userIds \in ClipIdLists, dur \in 0..MaxClip : ClipCommand(userIds, dur, dur)

SpecGuild == GuildInit /\ [][GuildNext]_vars

----------------------------------------------------------------------------
(* SpecPipe: the streams of the receiver. Members start speaking, their   *)
(* subscriptions are made, deliver frames and end, over sessions that are *)
(* joined and left, for every retention                                   *)

PipeInit ==
    /\ queue = <<>>
    /\ storageDuration \in 0..MaxRetention
    /\ now = 0
    /\ appended = <<>>
    /\ AudioIdle /\ WavIdle /\ GuildIdle
    /\ guildInfo = NewGuildInfo
    /\ voice = NoVoice
    /\ where = [m \in Members |-> IF m = Bot THEN <<>> ELSE <<Lobby>>]
    /\ event = Event("none", <<>>, "none")
    /\ process = [alive |-> TRUE, caught |-> FALSE, timers |-> 0]

PipeNext ==
    \/ \E member \in Users : JoinCommand(member)
    \/ LeaveCommand
    \/ IdleCheck
    \/ \E ch \in {<<>>, guildInfo.channel} : VoiceStateUpdate(Bot, ch)
    \/ \E userId \in Users : SpeakingEvent(userId)
    \/ \E userId \in Users, chunk \in Payloads : FrameStamped(userId, chunk)
    \/ \E userId \in Users : FrameWritten(userId)
    \/ \E userId \in Users : SubscriptionEnds(userId)
    \/ ClockTick

SpecPipe == PipeInit /\ [][PipeNext]_vars

----------------------------------------------------------------------------
(* SpecLoop: the callbacks of the event loop. The clip handler takes the   *)
(* loop at its start, reads the buffers, produces the bytes and leaves the *)
(* loop at await interaction.reply; the callbacks of the receiver run      *)
(* only while the handler is off the call stack                            *)

LoopInit ==
    /\ queue = <<>>
    /\ storageDuration \in 0..MaxRetention
    /\ now = 0
    /\ appended = <<>>
    /\ AudioIdle /\ WavIdle /\ GuildIdle /\ BotIdle

\* receiver.speaking.on('start') as a callback of the loop
StartCallback(userId) ==
    /\ OffStack(clipPc)
    /\ StoredIn(userClips, Users) < MaxSessionPackets
    /\ LET clips == getUserQueue(userClips, userId)
       IN  userClips' = [clips EXCEPT ![userId] =
               <<flagSpeakingStart(clips[userId][1], storageDuration, now)>>]
    /\ UNCHANGED <<queueVars, audioVars, wavVars, clipPc, clipWav, botVars>>

\* ClipQueue._write as a callback of the loop: a frame of a subscribed user
WriteCallback(userId, chunk) ==
    /\ OffStack(clipPc)
    /\ StoredIn(userClips, Users) < MaxSessionPackets
    /\ userClips[userId] # <<>>
    /\ userClips[userId][1] # <<>>
    /\ userClips' = [userClips EXCEPT ![userId] =
            <<add(userClips[userId][1], storageDuration, <<Timestamped(now, chunk)>>)>>]
    /\ UNCHANGED <<queueVars, audioVars, wavVars, clipPc, clipWav, botVars>>

\* the wall clock advances, also while a handler runs
LoopTick ==
    /\ now < MaxSessionTime
    /\ now' = now + 1
    /\ UNCHANGED <<queue, storageDuration, appended, audioVars, wavVars, guildVars, botVars>>

\* createWAV up to let opusPackets = userClips.flatMap(...): the handler
\* starts, and the packets of the asked users are in opusPackets
ClipRead(userIds, dur, tMinus) ==
    /\ clipPc = "idle"
    /\ LET after == GetUserQueues(userClips, userIds)
       IN  /\ userClips' = after
           /\ opusPackets' = FlatPackets(after, userIds)
    /\ duration' = dur
    /\ t0' = now - tMinus
    /\ clipPc' = "read"
    /\ clipWav' = <<>>
    /\ UNCHANGED <<queueVars, audioPc, pcmData, pcmPackets, decodeCalls, placing, mixed,
                   wavVars, botVars>>

\* createWAV from opusToPCM to its return, and execute up to await
\* interaction.reply: null for no packet, no data in range or an exception
ClipProduce ==
    /\ clipPc = "read"
    /\ LET r == opusToPCM(opusPackets, duration, t0)
       IN  clipWav' = IF opusPackets = <<>> \/ r.threw \/ r.data = <<>>
                      THEN <<>>
                      ELSE <<pcmToWAV(r.data[1])>>
    /\ clipPc' = "replying"
    /\ UNCHANGED <<queueVars, audioVars, wavVars, userClips, botVars>>

\* the reply is sent and the handler ends
ClipReplied ==
    /\ clipPc = "replying"
    /\ clipPc' = "idle"
    /\ clipWav' = <<>>
    /\ opusPackets' = <<>>
    /\ duration' = 0
    /\ t0' = 0
    /\ UNCHANGED <<queueVars, audioPc, pcmData, pcmPackets, decodeCalls, placing, mixed,
                   wavVars, userClips, botVars>>

LoopNext ==
    \/ \E userId \in Users : StartCallback(userId)
    \/ \E userId \in Users, chunk \in Payloads : WriteCallback(userId, chunk)
    \/ LoopTick
    \/ \E userIds \in ClipIdLists, dur \in 0..MaxClip : ClipRead(userIds, dur, dur)
    \/ ClipProduce
    \/ ClipReplied

SpecLoop == LoopInit /\ [][LoopNext]_vars

----------------------------------------------------------------------------
(* Claims about the ClipQueue, checked under Spec *)

Timestamps(packets) == {packets[i].timestamp : i \in DOMAIN packets}

\* the largest timestamp handed to add so far
MaxInserted == CHOOSE m \in Timestamps(appended) : \A x \in Timestamps(appended) : x <= m

\* the timestamp of the packet handed to add last
LastInserted == appended[Len(appended)].timestamp

\* the timestamps handed to add never went back
MonotoneAppends ==
    \A i, j \in DOMAIN appended : i < j => appended[i].timestamp <= appended[j].timestamp

\* the retained packets, in order, are the appended ones that satisfy Keep
RECURSIVE Filter(_, _)
Filter(packets, limit) ==
    IF packets = <<>> THEN <<>>
    ELSE IF Head(packets).timestamp >= limit
         THEN <<Head(packets)>> \o Filter(Tail(packets), limit)
         ELSE Filter(Tail(packets), limit)

\* C1: with timestamps appended in increasing order, for every retention
\* window, after each append no packet left in the buffer has a timestamp
\* below (the largest timestamp inserted) - retention.
C1_RetentionMonotone ==
    (appended # <<>> /\ MonotoneAppends) =>
        \A i \in DOMAIN queue : queue[i].timestamp >= MaxInserted - storageDuration

\* C1's case: increasing appends, one of which evicted two packets at once
\* and left more than one packet behind.
C1_Witness ==
    /\ MonotoneAppends
    /\ Len(appended) = MaxAppends
    /\ Len(queue) = 2
    /\ appended[1].timestamp < appended[2].timestamp
    /\ appended[2].timestamp < queue[1].timestamp - storageDuration
    /\ storageDuration > 0

\* C2: with timestamps appended in increasing order, after the append of a
\* packet stamped t the buffer holds exactly the appended packets stamped
\* >= t - retention, in arrival order: one stamped exactly t - retention is
\* kept, every older one is evicted, nothing newer is evicted.
C2_ExactWindow ==
    (appended # <<>> /\ MonotoneAppends) =>
        queue = Filter(appended, LastInserted - storageDuration)

\* C2's case: a packet stamped exactly t - retention is at the head of the
\* buffer and an older packet was evicted.
C2_Witness ==
    /\ appended # <<>> /\ MonotoneAppends
    /\ storageDuration > 0
    /\ Len(queue) >= 2 /\ Len(queue) < Len(appended)
    /\ queue[1].timestamp = LastInserted - storageDuration

\* C3 as stated: after every insertion, for any arrival order of timestamps,
\* no retained packet is older than (latest timestamp inserted) - retention.
C3_Original ==
    appended # <<>> =>
        \A i \in DOMAIN queue : queue[i].timestamp >= LastInserted - storageDuration

\* C3 amended: after every insertion, for any arrival order of timestamps,
\* the buffer is not empty and the packet at its head is not older than
\* (latest timestamp inserted) - retention; eviction stops there, so packets
\* behind the head may be older when timestamps arrive out of order.
C3_HeadWithinWindow ==
    appended # <<>> =>
        /\ queue # <<>>
        /\ Head(queue).timestamp >= LastInserted - storageDuration

\* C3's case: timestamps arrived out of order, an eviction took place, and a
\* packet older than the window is retained behind the head.
C3_Witness ==
    /\ appended # <<>> /\ ~MonotoneAppends
    /\ Len(queue) < Len(appended)
    /\ \E i \in DOMAIN queue : queue[i].timestamp < LastInserted - storageDuration

----------------------------------------------------------------------------
(* Claims about opusToPCM, checked under SpecAudio *)

\* the positions of the packets inside the requested range
InRangeIdx == {i \in DOMAIN opusPackets : InRange(opusPackets[i], duration, t0)}

\* those that carry audio
RealIdx == {i \in InRangeIdx : ~opusPackets[i].isStart}

\* how many times position i was handed to the decoder
DecodeCount(i) == Cardinality({k \in DOMAIN decodeCalls : decodeCalls[k] = i})

RECURSIVE AllChunks(_)
\* the chunks of all segments, in segment order
AllChunks(segments) ==
    IF segments = <<>> THEN <<>>
    ELSE Head(segments).chunks \o AllChunks(Tail(segments))

\* buf holds exactly the bytes of pcm at offset off, and zero elsewhere
HoldsOnlyAt(buf, pcm, off) ==
    /\ off + pcm.length <= buf.length
    /\ buf.bytes = [i \in {j + off : j \in DOMAIN pcm.bytes} |-> pcm.bytes[i - off]]

\* C4 as stated: with one real packet in range (and no other real packet),
\* the buffer returned holds that packet's decoded samples verbatim at some
\* frame-aligned offset and zero everywhere else.
C4_Original ==
    (audioPc = "done" /\ Cardinality(RealIdx) = 1) =>
        LET pcm == OPUS_decode(opusPackets[CHOOSE i \in RealIdx : TRUE].chunk)
        IN  /\ pcmData # <<>>
            /\ \E off \in {4 * n : n \in 0..(pcmData[1].length \div 4)} :
                  HoldsOnlyAt(pcmData[1], pcm, off)

\* C5 as stated, on its scenario: one packet in range, carrying audio, the
\* reference start anywhere at or before it: the buffer is as long as the
\* decoded payload (rounded down to whole frames) and is not silent.
C5_Original ==
    (audioPc = "done" /\ Cardinality(InRangeIdx) = 1 /\ Cardinality(RealIdx) = 1) =>
        LET pcm == OPUS_decode(opusPackets[CHOOSE i \in RealIdx : TRUE].chunk)
        IN  /\ pcmData # <<>>
            /\ pcmData[1].length = (pcm.length \div 4) * 4
            /\ pcmData[1].bytes # EmptyBytes

\* two segments, opened at the same timestamp, whose runs have the same
\* length and lie inside the buffer
FullOverlap ==
    /\ audioPc = "done" /\ pcmData # <<>>
    /\ Len(pcmPackets) = 2
    /\ pcmPackets[1].timestampStart = pcmPackets[2].timestampStart
    /\ LET run1 == BufferConcat(pcmPackets[1].chunks)
           run2 == BufferConcat(pcmPackets[2].chunks)
           at == DataAlign(pcmPackets[1].timestampStart,
                           opusToPCM(opusPackets, duration, t0).firstTimestamp)
       IN  /\ run1.length = run2.length
           /\ run1.length > 0
           /\ at + run1.length <= pcmData[1].length

\* C6 as stated: where two runs fully overlap, an output sample whose two
\* contributions a and b are both non-zero is floor((a + b) / 2), and where
\* one of them is 0 the output is the other one unchanged, whichever of the
\* two was placed first.
C6_Original ==
    FullOverlap =>
        LET run1 == BufferConcat(pcmPackets[1].chunks)
            run2 == BufferConcat(pcmPackets[2].chunks)
            at == DataAlign(pcmPackets[1].timestampStart,
                            opusToPCM(opusPackets, duration, t0).firstTimestamp)
        IN  \A k \in 0..((run1.length \div 2) - 1) :
                LET a == readInt16LE(run1, 2 * k)
                    b == readInt16LE(run2, 2 * k)
                    out == readInt16LE(pcmData[1], at + 2 * k)
                IN  /\ (a # 0 /\ b # 0) => out = (a + b) \div 2
                    /\ a = 0 => out = b
                    /\ b = 0 => out = a

\* C7 as stated: every packet in range that carries audio is handed to the
\* decoder exactly once and its samples are in exactly one segment, the
\* first real packet that opens a segment included.
C7_Original ==
    audioPc = "done" =>
        /\ \A i \in RealIdx : DecodeCount(i) = 1
        /\ Len(AllChunks(pcmPackets)) = Cardinality(RealIdx)

\* C8: a marker is never handed to the decoder, and the runs placed in the
\* output are exactly the decoded payloads of the packets that were: no
\* marker contributes a byte, whatever the packets and the range.
C8_MarkersNeverDecoded ==
    audioPc # "input" =>
        /\ \A k \in DOMAIN decodeCalls : ~opusPackets[decodeCalls[k]].isStart
        /\ \A k \in DOMAIN decodeCalls : opusPackets[decodeCalls[k]].chunk # NullChunk
        /\ AllChunks(pcmPackets) =
              [k \in DOMAIN decodeCalls |-> OPUS_decode(opusPackets[decodeCalls[k]].chunk)]

\* C8's case: a marker inside the range follows a decoded packet, another
\* packet is decoded after it, and the output holds audio.
C8_Witness ==
    /\ audioPc = "done"
    /\ pcmData # <<>> /\ pcmData[1].bytes # EmptyBytes
    /\ \E i \in InRangeIdx :
          /\ opusPackets[i].isStart
          /\ \E k1, k2 \in DOMAIN decodeCalls : decodeCalls[k1] < i /\ i < decodeCalls[k2]

----------------------------------------------------------------------------
(* Claims about the WAV container, checked under SpecWav *)

\* C9 as stated: the duration of the wrapped buffer gives back the length
\* of the PCM data: getWAVDuration(pcmToWAV(pcm)) * BYTES_PER_MS = pcm.length.
C9_Original ==
    wavPc = "measured" => wavDuration = rawPCM.length

\* C10 as stated: the little-endian 32-bit size field at offset 4 of the
\* container equals the number of bytes that follow it, the container's
\* length less 8.
C10_Original ==
    wavPc \in {"wrapped", "measured"} =>
        readUInt32LE(wavData[1], 4) = wavData[1].length - 8


\* where the payload-size field and the PCM bytes lie in the container
WavSizeOffset == Len(HEADERS_TOP) + 4 + Len(HEADERS_MIDDLE)
WavDataOffset == WavSizeOffset + 4

\* C11: pcmToWAV(pcm) returns a container whose little-endian 32-bit
\* payload-size field is pcm.length, whose bytes after the header are the
\* bytes of pcm in order, and whose length is the header's size plus
\* pcm.length; the call leaves pcm as it was.
C11_PayloadLayout ==
    [][wavPc = "input" =>
          /\ rawPCM' = rawPCM
          /\ wavData' # <<>>
          /\ readUInt32LE(wavData'[1], WavSizeOffset) = rawPCM.length
          /\ wavData'[1].length = WavDataOffset + rawPCM.length
          /\ \A i \in 0..(rawPCM.length - 1) :
                ByteAt(wavData'[1], WavDataOffset + i) = ByteAt(rawPCM, i)
          /\ \A i \in DOMAIN wavData'[1].bytes : i < wavData'[1].length]_vars

\* C11's case: a buffer of the largest length, with zero and non-zero
\* bytes, has been wrapped.
C11_Witness ==
    /\ wavPc = "wrapped"
    /\ rawPCM.length = MaxPcmLen
    /\ ByteAt(rawPCM, 0) = 255 /\ ByteAt(rawPCM, 1) = 0 /\ ByteAt(rawPCM, 2) = 1
    /\ ByteAt(wavData[1], WavDataOffset) = 255

----------------------------------------------------------------------------
(* Further claims about opusToPCM, checked under SpecAudio and SpecDecode *)

\* position i holds a packet stamped inside [t0, t0 + duration]
Within(i) ==
    t0 <= opusPackets[i].timestamp /\ opusPackets[i].timestamp <= t0 + duration

WithinIdx == {i \in DOMAIN opusPackets : Within(i)}

\* the packets stamped inside [t0, t0 + duration], in order
WithinPackets ==
    LET Test(packet) == t0 <= packet.timestamp /\ packet.timestamp <= t0 + duration
    IN  SelectSeq(opusPackets, Test)

\* the run of segment k
Run(k) == BufferConcat(pcmPackets[k].chunks)

\* C12: when no packet is stamped inside the requested range (the list is
\* empty, or all of it lies outside the range, as after eviction), the
\* reconstruction returns null, and it does so without raising an error,
\* whatever payloads the packets outside the range carry.
C12_NoneOutsideRange ==
    (audioPc # "input" /\ WithinIdx = {}) =>
        /\ audioPc = "done"
        /\ pcmData = <<>>
        /\ decodeCalls = <<>>

\* C12's case: a full list of packets, audio and a rejected payload among
\* them, all outside the range; null was returned.
C12_Witness ==
    /\ audioPc = "done" /\ pcmData = <<>>
    /\ Len(opusPackets) = MaxBadPackets
    /\ WithinIdx = {}
    /\ \E i, j \in DOMAIN opusPackets :
          /\ opusPackets[i].chunk \in Payloads
          /\ opusPackets[j].chunk \in BadPayloads

\* C13 as stated: the reconstruction returns a buffer exactly when at least
\* one segment holds decoded audio; with packets in range but no decoded
\* audio (only markers, or only a segment-opening packet) it returns null.
C13_Original ==
    audioPc = "done" =>
        (pcmData # <<>> <=> \E k \in DOMAIN pcmPackets : pcmPackets[k].chunks # <<>>)

\* the first packet inside the range: the only one that can meet currentPCM === null
FirstWithin == CHOOSE i \in WithinIdx : \A j \in WithinIdx : i <= j

\* C14 as stated: a payload the decoder rejects is skipped and the
\* reconstruction goes on: it is not aborted, and every later packet in
\* range that carries a sound payload is still decoded.
C14_Original ==
    audioPc # "input" =>
        /\ audioPc = "done"
        /\ \A i \in WithinIdx :
              (opusPackets[i].chunk \in Payloads /\ i # FirstWithin) => DecodeCount(i) = 1

\* C15: no error is raised during placement; every offset of data read or
\* written by the write loop satisfies 0 <= i and i + 2 <= data.length and
\* is not before the run's offset; the samples of a run beyond the end are
\* dropped, so that the buffer returned has no byte outside 0..length-1 and
\* none outside the extent of some run.
C15_WritesInsideBuffer ==
    audioPc # "input" =>
        /\ audioPc = "done"
        /\ pcmData # <<>> =>
              /\ placing # <<>>
              /\ DOMAIN placing[1].runs = DOMAIN pcmPackets
              /\ \A k \in DOMAIN pcmPackets :
                    \A i \in placing[1].runs[k].accessed :
                        /\ 0 <= i
                        /\ i + 2 <= pcmData[1].length
                        /\ placing[1].runs[k].dataAlign <= i
              /\ \A j \in DOMAIN pcmData[1].bytes :
                    /\ 0 <= j /\ j < pcmData[1].length
                    /\ \E k \in DOMAIN pcmPackets :
                          /\ placing[1].runs[k].dataAlign <= j
                          /\ j < placing[1].runs[k].dataAlign + Run(k).length

\* C15's case: one run was written and another, lying beyond the end of
\* the buffer, was dropped whole.
C15_Witness ==
    /\ audioPc = "done" /\ pcmData # <<>>
    /\ pcmData[1].bytes # EmptyBytes
    /\ \E k \in DOMAIN pcmPackets :
          /\ Run(k).length > 0
          /\ placing[1].runs[k].accessed = {}
          /\ placing[1].runs[k].dataAlign >= pcmData[1].length

\* C16: the length of every buffer returned is a multiple of the 4-byte
\* sample-frame, also when the start of the buffer is a fraction of a
\* millisecond (a decoded length that is no whole number of milliseconds).
C16_FrameMultiple ==
    (audioPc = "done" /\ pcmData # <<>>) =>
        /\ pcmData[1].length >= 0
        /\ pcmData[1].length % 4 = 0

\* C16's case: the buffer starts a fraction of a millisecond before t0 and
\* is not empty.
C16_Witness ==
    /\ audioPc = "done" /\ pcmData # <<>>
    /\ placing[1].firstTimestamp % BYTES_PER_MS # 0
    /\ pcmData[1].length > BYTES_PER_MS

\* C17: the run of every segment is written from the byte offset that is
\* (segment start - buffer start) * BYTES_PER_MS rounded down to a frame:
\* the offset is not negative and a multiple of 4, the write loop starts
\* there and advances by whole samples, and a segment placed alone lies in
\* the buffer byte for byte from that offset.
C17_RunOffsets ==
    (audioPc = "done" /\ pcmData # <<>>) =>
        \A k \in DOMAIN pcmPackets :
            LET x == pcmPackets[k].timestampStart * BYTES_PER_MS
                        - placing[1].firstTimestamp
                at == placing[1].runs[k].dataAlign
                touched == placing[1].runs[k].accessed
            IN  /\ x >= 0
                /\ at >= 0 /\ at % 4 = 0
                /\ at <= x /\ x < at + 4
                /\ touched # {} => at \in touched
                /\ \A i \in touched : (i - at) % 2 = 0 /\ i - at < Run(k).length
                /\ (Len(pcmPackets) = 1 /\ at + Run(k).length <= pcmData[1].length)
                      => HoldsOnlyAt(pcmData[1], Run(k), at)

\* C17's case: a run was written at an offset that is not a whole number of
\* milliseconds from the start of the buffer.
C17_Witness ==
    /\ audioPc = "done" /\ pcmData # <<>>
    /\ \E k \in DOMAIN pcmPackets :
          /\ placing[1].runs[k].dataAlign % BYTES_PER_MS # 0
          /\ placing[1].runs[k].accessed # {}
          /\ Run(k).length > 4

\* C18: only the packets stamped t0 <= t <= t0 + duration, both bounds
\* included, bear on the result: the result is that of the call on those
\* packets alone, every packet decoded is one of them, and each of them
\* either opened a segment or was decoded.
C18_OnlyInRange ==
    audioPc = "done" =>
        LET r == opusToPCM(WithinPackets, duration, t0)
        IN  /\ pcmData = r.data
            /\ pcmPackets = r.pcmPackets
            /\ placing = r.placing
            /\ \A k \in DOMAIN decodeCalls : decodeCalls[k] \in WithinIdx
            /\ Len(decodeCalls) + Len(pcmPackets) = Cardinality(WithinIdx)

\* C18's case: an audio packet outside the range lies between packets in
\* range, the last of them stamped exactly t0 + duration and decoded.
C18_Witness ==
    /\ audioPc = "done" /\ pcmData # <<>>
    /\ \E i, j, k \in DOMAIN opusPackets :
          /\ i < j /\ j < k
          /\ Within(i) /\ opusPackets[i].timestamp = t0
          /\ ~Within(j) /\ ~opusPackets[j].isStart
          /\ opusPackets[k].timestamp = t0 + duration
          /\ DecodeCount(k) = 1

\* C20: a clip request changes the packet sequence of no speaker buffer:
\* every queue that exists keeps its packets, none added, removed, reordered
\* or modified, and a queue the request creates for a user never seen holds
\* no packet.
C20_ClipLeavesBuffers ==
    [][clipPc' = "served" =>
          \A u \in Users :
              /\ userClips[u] # <<>> => userClips'[u] = userClips[u]
              /\ userClips[u] = <<>> => userClips'[u] \in {<<>>, <<<<>>>>}]_vars

\* C20's case: a clip of audio was returned from the queues of two users,
\* one holding packets of a speaker and one created by the request itself.
C20_Witness ==
    /\ clipPc = "served"
    /\ clipWav # <<>>
    /\ \E j \in DOMAIN clipWav[1].bytes : j >= WavDataOffset
    /\ \E u, v \in Users :
          /\ userClips[u] # <<>> /\ Len(userClips[u][1]) >= 2
          /\ userClips[v] = <<<<>>>>

----------------------------------------------------------------------------
(* Further claims about ClipQueue, checked under Spec *)

\* C25: appending null (or nothing) is a no-op: a step that hands add no
\* packet leaves the packet sequence as it was, and evicts nothing even when
\* the head of the buffer is older than the window counted from the clock.
C25_NullAppendNoOp ==
    [][(appended' = appended /\ now' = now) => queue' = queue]_vars

\* C25's case: the buffer holds packets whose head is older than the window
\* counted from the clock, so that an eviction would remove it.
C25_Witness ==
    /\ Len(queue) >= 2
    /\ Head(queue).timestamp + storageDuration < now
    /\ add(queue, storageDuration, <<>>) = queue

\* the first position of q whose packet is inside the window that ends at latest
FirstKept(q, retention, latest) ==
    CHOOSE k \in 1..Len(q) :
        /\ q[k].timestamp + retention >= latest
        /\ \A j \in 1..(k - 1) : q[j].timestamp + retention < latest

\* C29: eviction removes packets from the head only: the packets retained
\* are a contiguous suffix, in arrival order, of all the packets appended,
\* and each append cuts the buffer at the first packet still inside the
\* window, keeping whatever lies behind it, older packets included.
C29_HeadOnlyEviction ==
    [][appended' # appended =>
          LET p == appended'[Len(appended')]
              q == Append(queue, p)
          IN  /\ queue' = SubSeq(q, FirstKept(q, storageDuration, p.timestamp), Len(q))
              /\ Len(queue') <= Len(appended')
              /\ queue' = SubSeq(appended', Len(appended') - Len(queue') + 1,
                                 Len(appended'))]_vars

\* C29's case: after an eviction the buffer still holds, behind its head, a
\* packet older than the window of the last append.
C29_Witness ==
    /\ Len(queue) >= 3
    /\ Len(queue) < Len(appended)
    /\ \E i \in 2..Len(queue) : queue[i].timestamp + storageDuration < LastInserted
    /\ queue = SubSeq(appended, Len(appended) - Len(queue) + 1, Len(appended))

----------------------------------------------------------------------------
(* Further claims about GuildInfo.userClips, checked under SpecClip *)

\* C24: getUserQueue(userId) leaves the map with exactly one queue for
\* userId: the queue already stored when there is one, a new empty queue
\* otherwise; a second call returns that same queue, and the entry of every
\* other user is left as it was.
C24_OneBufferPerSpeaker ==
    \A u \in Users :
        LET r == getUserQueue(userClips, u)
        IN  /\ DOMAIN r = Users
            /\ Len(r[u]) = 1
            /\ userClips[u] # <<>> => r = userClips
            /\ userClips[u] = <<>> => r[u] = <<<<>>>>
            /\ getUserQueue(r, u) = r
            /\ \A v \in Users \ {u} : r[v] = userClips[v]

\* C24's case: one user has a queue holding a marker and a frame, made by
\* the calls of two handlers, and another user has no queue yet.
C24_Witness ==
    \E u, v \in Users :
        /\ userClips[u] # <<>> /\ Len(userClips[u][1]) = 2
        /\ userClips[u][1][1].isStart /\ ~userClips[u][1][2].isStart
        /\ userClips[v] = <<>>

----------------------------------------------------------------------------
(* Claims about mix16, checked under SpecMix *)

\* C28: whatever 16-bit samples are mixed, in any number of writes over the
\* same positions, the value written lies in [-32768, 32767] and between the
\* two samples mixed, the position written reads back as that value, and
\* the neighbouring sample of the frame is left as it was.
C28_MixStaysInRange ==
    [][mixed' # mixed =>
          LET w == mixed'[1]
          IN  /\ -32768 <= w.value /\ w.value <= 32767
              /\ Min(w.num, w.dataNum) <= w.value /\ w.value <= Max(w.num, w.dataNum)
              /\ readInt16LE(pcmData'[1], w.at) = w.value
              /\ \A other \in FrameOffsets \ {w.at} :
                    readInt16LE(pcmData'[1], other) = readInt16LE(pcmData[1], other)
              /\ DOMAIN pcmData'[1].bytes \subseteq 0..3
              /\ \A i \in DOMAIN pcmData'[1].bytes : pcmData'[1].bytes[i] \in 1..255]_vars

\* C28's case: the largest sample was mixed onto the largest and the
\* smallest onto the smallest, side by side in one frame, after a write.
C28_Witness ==
    /\ Len(mixed) = MaxMixes
    /\ \E i, j \in DOMAIN mixed :
          /\ mixed[i].num = 32767 /\ mixed[i].dataNum = 32767
          /\ mixed[j].num = -32768 /\ mixed[j].dataNum = -32768
          /\ mixed[i].at # mixed[j].at

----------------------------------------------------------------------------
(* Claims about the idle check, checked under SpecIdle and SpecIdleFair *)

\* the session's channel has no member who is not a bot, or the bot is not
\* among its members
ChannelIdle ==
    \/ \A u \in Users : where[u] # guildInfo.channel
    \/ where[Bot] # guildInfo.channel

\* C23: when the idle check runs while the session's channel holds no
\* member who is not a bot, or not the bot itself, the session is torn down:
\* the connection is destroyed, channel, connection and timer are cleared;
\* when a member who is not a bot and the bot are both there, the check
\* changes nothing.
C23_IdleCheckTearsDown ==
    [][event'.op = "check" =>
          IF ChannelIdle
          THEN /\ guildInfo'.channel = <<>>
               /\ guildInfo'.connection = <<>>
               /\ guildInfo'.channelTimeout = <<>>
               /\ voice'.status = "destroyed"
               /\ event'.out = "disconnect"
          ELSE /\ guildInfo' = guildInfo
               /\ voice' = voice
               /\ event'.out = "stay"]_vars

\* C23's case: the check has just torn the session down although a member
\* who is not a bot is still in the channel the bot had left.
C23_Witness ==
    /\ event = Event("check", <<>>, "disconnect")
    /\ guildInfo = NewGuildInfo
    /\ voice.status = "destroyed"
    /\ where[Bot] = <<>>
    /\ \E u \in Users : where[u] # <<>>

\* C30: a connected session whose channel stays without a member who is not
\* a bot, or without the bot, is disconnected in the end, the interval
\* firing for as long as it is scheduled; and an idle check only ever runs
\* on a session that is in a channel, so none runs between a disconnect and
\* the next join.
C30_IdleSessionEnds ==
    /\ []<>(~inChannel(guildInfo) \/ ~ChannelIdle)
    /\ [][event'.op = "check" => inChannel(guildInfo)]_vars

\* C30's case: the idle check has disconnected a session that a member had
\* joined and then left alone with the bot.
C30_Witness ==
    /\ event = Event("check", <<>>, "disconnect")
    /\ where[Bot] # <<>>
    /\ \A u \in Users : where[u] # where[Bot]
    /\ ~inChannel(guildInfo)
    /\ guildInfo.channelTimeout = <<>>

----------------------------------------------------------------------------
(* Claims about a guild's session, checked under SpecGuild *)

\* C22 as stated: when the session ends, by the leave command or by the
\* idle check, its speaker buffers are destroyed: a session that is in no
\* channel retains no packet.
C22_Original ==
    ~inChannel(guildInfo) => StoredIn(userClips, Users) = 0

\* C26 as stated: each speaking-start signal appends exactly one marker,
\* stamped with the current time, to the buffer of the member who speaks,
\* creating the buffer if needed, and leaves the other buffers alone; this
\* after any sequence of joins and leaves.
C26_Original ==
    [][event'.op = "start" =>
          LET u == event'.arg[1]
              q == IF userClips[u] = <<>> THEN <<>> ELSE userClips[u][1]
          IN  /\ userClips'[u] = <<flagSpeakingStart(q, storageDuration, now)>>
              /\ \A v \in Users \ {u} : userClips'[v] = userClips[v]]_vars

\* C27: an exception raised while a command executes is caught by the
\* interaction handler and answered with an error reply; the process stays
\* alive, the session (channel, connection, timer, voice connection) and
\* the packets stored are as they were before the command, and the
\* commands that follow are served.
C27_CommandErrorsCaught ==
    /\ [](process.alive)
    /\ [][(event'.op = "clip" /\ event'.out = "error reply") =>
             /\ process'.alive
             /\ process'.caught
             /\ guildInfo' = guildInfo
             /\ voice' = voice
             /\ \A u \in Users : userClips[u] # <<>> => userClips'[u] = userClips[u]
             /\ clipWav' = <<>>]_vars
    /\ [][(process.caught /\ event'.op = "leave") => ~inChannel(guildInfo')]_vars

\* C27's case: after the handler had caught the exception of a clip command
\* whose reconstruction met a payload that is no OPUS frame, a later clip
\* command on the same session was answered with a clip.
C27_Witness ==
    /\ process.alive /\ process.caught
    /\ event.op = "clip" /\ event.out = "clip sent"
    /\ clipWav # <<>>
    /\ inChannel(guildInfo)
    /\ \E u \in Users :
          /\ userClips[u] # <<>>
          /\ \E i \in DOMAIN userClips[u][1] : userClips[u][1][i].chunk \in BadPayloads


----------------------------------------------------------------------------
(* Claims about the callbacks of the event loop, checked under SpecLoop *)

\* the packets createWAV holds are those of the buffers of some asked users
ReadIsCurrent ==
    \E userIds \in ClipIdLists :
        /\ \A i \in DOMAIN userIds : userClips[userIds[i]] # <<>>
        /\ opusPackets = FlatPackets(userClips, userIds)

\* C21: ingestion and reconstruction are interleaved and never concurrent:
\* from the moment the clip handler has read the buffers until it has
\* produced the bytes, no marker, frame or eviction takes effect, so the
\* packets it converts are the packets the buffers hold, and the bytes it
\* answers with are the conversion of the buffers as they are at that moment
C21_ClipRunsToCompletion ==
    /\ [](clipPc = "read" => ReadIsCurrent)
    /\ [][clipPc = "read" => /\ userClips' = userClips
                             /\ clipPc' \in {"read", "replying"}]_vars
    /\ [][clipPc' = "replying" /\ clipPc = "read" =>
            \E userIds \in ClipIdLists :
                clipWav' = createWAV(userClips', userIds, duration, 0, t0).wav]_vars

\* a clip has been produced from stored packets and, while its reply is
\* awaited, a callback has changed the buffers it was read from
C21_Witness ==
    /\ clipPc = "replying"
    /\ clipWav # <<>>
    /\ opusPackets # <<>>
    /\ ~ReadIsCurrent


----------------------------------------------------------------------------
(* Claims about the clip command, checked under SpecGuild *)

\* the cases in which createWAV(guildInfo, userIds, dur, tMinus) called at
\* start has nothing to return: nobody asked for, no packet stored for
\* those asked for, or a reconstruction that returns null
NothingToClip(clips, userIds, dur, tMinus, start) ==
    \/ userIds = <<>>
    \/ LET packets == FlatPackets(GetUserQueues(clips, userIds), userIds)
           r == opusToPCM(packets, dur, start - tMinus)
       IN  \/ packets = <<>>
           \/ ~r.threw /\ r.data = <<>>

\* C31: createWAV returns null whenever the list of speakers asked for is
\* empty, they hold no packet, or reconstruction returns null, and
\* container bytes in every other case; the clip command answers
\* 'No data' exactly when createWAV returned null.
C31_Original ==
    [][(event'.op = "clip" /\ event'.out # "not connected") =>
          \E userIds \in ClipIdLists, dur \in 0..MaxClip :
              /\ userClips' = createWAV(userClips, userIds, dur, dur, now).userClips
              /\ IF NothingToClip(userClips, userIds, dur, dur, now)
                 THEN clipWav' = <<>> /\ event'.out = "no data"
                 ELSE clipWav' # <<>> /\ event'.out = "clip sent"]_vars


\* C32: a clip command for a guild whose session is in no channel is
\* answered with 'not connected'; it produces no file, reads and creates no
\* buffer and leaves the session as it is, whatever the buffers still hold.
C32_ClipNeedsSession ==
    [][(event'.op = "clip" /\ guildInfo.channel = <<>>) =>
          /\ event'.out = "not connected"
          /\ clipWav' = <<>>
          /\ userClips' = userClips
          /\ guildInfo' = guildInfo
          /\ voice' = voice
          /\ process' = process]_vars

\* C32's case: the command was refused while the buffers of the session
\* that ended still hold a frame that a clip would have contained
C32_Witness ==
    /\ event.op = "clip" /\ event.out = "not connected"
    /\ guildInfo.channel = <<>>
    /\ \E u \in Users :
          /\ userClips[u] # <<>>
          /\ Len(userClips[u][1]) >= 2
          /\ \E k \in DOMAIN userClips[u][1] : ~userClips[u][1][k].isStart


\* C33: a clip command does not change the set of buffers of the session:
\* it creates no buffer for a speaker asked for who was never observed
\* speaking.
C33_Original ==
    [][event'.op = "clip" =>
          \A u \in Users : (userClips'[u] = <<>>) <=> (userClips[u] = <<>>)]_vars


----------------------------------------------------------------------------
(* Claims about the session's fields, checked under SpecGuild *)

\* C34: between two events channel is null exactly when connection is null,
\* an idle-check interval is scheduled exactly when the session is in a
\* channel, and the process holds at most one interval for the guild, the
\* one channelTimeout refers to; after any sequence of join, leave, idle
\* check and clip.
C34_SessionFieldsAgree ==
    /\ (guildInfo.channel = <<>>) <=> (guildInfo.connection = <<>>)
    /\ (guildInfo.channelTimeout # <<>>) <=> (guildInfo.channel # <<>>)
    /\ process.timers <= 1
    /\ process.timers = (IF guildInfo.channelTimeout # <<>> THEN 1 ELSE 0)

\* C34's case: a second join was served on a session that was in a channel
\* already (two 'start' listeners on the one connection), and a clip
\* command has just been answered
C34_Witness ==
    /\ guildInfo.channel # <<>>
    /\ voice.listeners >= 2
    /\ process.timers = 1
    /\ event.op = "clip"


----------------------------------------------------------------------------
(* Claims about the join command, checked under SpecIdle *)

\* C35: a join command for the channel the session is connected to, while
\* the bot is a member of that channel, changes nothing of the session: no
\* new connection, no further 'start' listener, the same channel, connection
\* and interval; nor does the join command of a member who is in no voice
\* channel.
C35_JoinNoOp ==
    [][event'.op = "join" =>
          LET ch == where[event'.arg[1]]
          IN  /\ ch = <<>> =>
                    /\ event'.out = "not in a voice channel"
                    /\ guildInfo' = guildInfo /\ voice' = voice /\ process' = process
              /\ (ch # <<>> /\ guildInfo.channel = ch /\ where[Bot] = ch) =>
                    /\ event'.out = "already connected"
                    /\ guildInfo' = guildInfo /\ voice' = voice /\ process' = process]_vars

\* C35's case: a member of the channel the bot sits in, connected with its
\* listener and its interval, has asked the bot to join and was told so
C35_Witness ==
    /\ event.op = "join" /\ event.out = "already connected"
    /\ guildInfo.channel # <<>>
    /\ where[Bot] = guildInfo.channel
    /\ where[event.arg[1]] = guildInfo.channel
    /\ voice.status = "live" /\ voice.listeners >= 1
    /\ process.timers = 1


----------------------------------------------------------------------------
(* Claims about the streams of the receiver, checked under SpecPipe *)

\* C36: every frame the transport delivers for a speaker is appended to
\* that speaker's buffer exactly once, behind what the buffer holds, across
\* speaking starts, the end of subscriptions and new subscriptions: a
\* speaking start of a speaker who has a subscription makes no second pipe,
\* and the buffer takes the frames of a later subscription.
C36_FramesOnce ==
    /\ [](\A u \in Users :
            voice.pipes[u] = (IF u \in voice.subscriptions THEN 1 ELSE 0))
    /\ [][event'.op = "frame" =>
            LET u == event'.arg[1]
                q == userClips[u][1]
                after == userClips'[u][1]
                n == Len(after)
                sent == voice.inFlight[u]
            IN  /\ Len(sent) = 1
                /\ n >= 1
                /\ after[n] = sent[1]
                /\ ~after[n].isStart
                /\ \E k \in 1..(Len(q) + 1) :
                       SubSeq(after, 1, n - 1) = SubSeq(q, k, Len(q))
                /\ \A v \in Users \ {u} : userClips'[v] = userClips[v]]_vars

\* C36's case: a frame has just been stored for a speaker whose earlier
\* subscription on this connection had ended, through the subscription a
\* later speaking start has made
C36_Witness ==
    /\ event.op = "frame"
    /\ event.arg[1] \in voice.ended
    /\ event.arg[1] \in voice.subscriptions
    /\ LET q == userClips[event.arg[1]][1]
       IN  /\ Len(q) >= 2
           /\ q[Len(q) - 1].isStart
           /\ q[Len(q) - 1].timestamp > 0
           /\ ~q[Len(q)].isStart


----------------------------------------------------------------------------
(* Claims about eviction for any order of arrival, checked under Spec *)

\* the largest timestamp among the packets
MaxTimestamp(packets) ==
    CHOOSE m \in Timestamps(packets) : \A x \in Timestamps(packets) : x <= m

\* C37: no packet is evicted too early, whatever the order in which the
\* timestamps arrive: an append removes a packet only if its timestamp is
\* below (the largest timestamp appended so far) - retention, and never
\* removes the packet it has just appended.
C37_NoEarlyEviction ==
    [][appended' # appended =>
          LET p == appended'[Len(appended')]
              q == Append(queue, p)
              gone == Len(q) - Len(queue')
          IN  /\ queue' # <<>>
              /\ queue'[Len(queue')] = p
              /\ gone >= 0
              /\ queue' = SubSeq(q, gone + 1, Len(q))
              /\ \A i \in 1..gone :
                     q[i].timestamp < MaxTimestamp(appended') - storageDuration]_vars

\* C37's case: timestamps arrived out of order, an older packet behind a
\* newer one, and the last append evicted both and kept itself
C37_Witness ==
    /\ Len(appended) >= 3
    /\ appended[Len(appended) - 1].timestamp < appended[Len(appended) - 2].timestamp
    /\ storageDuration > 0
    /\ queue = <<appended[Len(appended)]>>
    /\ appended[Len(appended) - 2].timestamp + storageDuration < LastInserted
    /\ appended[Len(appended) - 2].timestamp + storageDuration
           >= appended[Len(appended) - 1].timestamp


----------------------------------------------------------------------------
(* Claims about clips of several speakers, checked under SpecClip *)

RECURSIVE OwnerOf(_, _, _)
\* the speaker whose queue gave packet i of userClips.flatMap(...)
OwnerOf(clips, userIds, i) ==
    IF i <= Len(clips[Head(userIds)][1])
    THEN Head(userIds)
    ELSE OwnerOf(clips, Tail(userIds), i - Len(clips[Head(userIds)][1]))

\* every packet handed to the decoder by a clip of the speakers comes from
\* the queue of the speaker whose packet opened the segment it is pushed to
SegmentsOfOneSpeaker(clips, userIds, dur, start) ==
    LET after == GetUserQueues(clips, userIds)
        packets == FlatPackets(after, userIds)
        inside == {i \in DOMAIN packets :
                      start <= packets[i].timestamp /\ packets[i].timestamp <= start + dur}
        Opens(i) == i \in inside /\ (packets[i].isStart \/ \A j \in inside : j >= i)
        Opener(i) == CHOOSE j \in inside :
                        /\ j < i /\ Opens(j)
                        /\ \A k \in inside : (k < i /\ Opens(k)) => k <= j
        calls == opusToPCM(packets, dur, start).calls
    IN  \A n \in DOMAIN calls :
            OwnerOf(after, userIds, calls[n]) = OwnerOf(after, userIds, Opener(calls[n]))

\* C38: in a clip of several speakers every segment holds the decoded audio
\* of one speaker only: a frame of speaker B is never pushed to a segment
\* that a packet of speaker A opened, also when B's last marker lies before
\* the start of the clip or has been evicted.
C38_Original ==
    \A userIds \in UserIdLists, dur \in 0..MaxClip, tMinus \in 0..MaxClip :
        userIds # <<>> => SegmentsOfOneSpeaker(userClips, userIds, dur, now - tMinus)


----------------------------------------------------------------------------
(* Claims about the order of placement, checked under SpecAudio *)

\* the segments in the opposite order
Reversed(segments) == [i \in 1..Len(segments) |-> segments[Len(segments) + 1 - i]]

\* C39: the bytes reconstructed do not depend on the order in which the
\* speakers, and so their segments, are supplied: overlapping segments
\* placed in another order give the same bytes.
C39_Original ==
    (audioPc = "done" /\ pcmData # <<>>) =>
        Place(BufferAlloc(pcmData[1].length), Reversed(pcmPackets), 1,
              placing[1].firstTimestamp) = pcmData[1]


----------------------------------------------------------------------------
(* Claims about the order of the packets of a buffer, checked under SpecPipe *)

\* the timestamps of the packets never go back
Ordered(packets) ==
    \A i, j \in DOMAIN packets : i < j => packets[i].timestamp <= packets[j].timestamp

====
